---- MODULE Spec2Model ----
(***************************************************************************)
(* Model of maddy's check action policy (package check: FailAction,        *)
(* ParseActionDirective, ParseRejectDirective, parseEnhancedCode) and of   *)
(* the three DNS identity checks (package check/dns: requireMatchingRDNS,  *)
(* requireMXRecord, requireMatchingEHLO).                                  *)
(*                                                                         *)
(* Go strings are TLA+ strings; where the code parses or slices one, the    *)
(* model works on Chars(s), its sequence of characters.  *SMTPError and    *)
(* error values live in a heap of objects addressed by their index,        *)
(* address 0 being nil.                                                    *)
(***************************************************************************)
EXTENDS Integers, Sequences, FiniteSets, TLC

VARIABLES
    heap,       \* the error objects allocated so far; a pointer is an index, 0 is nil
    pc,         \* "load", "parsed", "failed", "ready", "checked" (raw verdict), "applied"
    policy,     \* the check's FailAction: [Quarantine, Reject, ReasonOverride]
    policySrc,  \* "none", "directive" (ParseActionDirective) or "literal" (a FailAction{...})
    cfgErr,     \* the error text of a failed FailActionDirective, "" if none
    lastParse,  \* a direct ParseRejectDirective call: [called, args, err, val]
    call,       \* the inputs of the last check invocation
    queries,    \* the resolver lookups the last check invocation performed
    raw,        \* the CheckResult the check returned
    final       \* the CheckResult FailAction.Apply returned

vars == <<heap, pc, policy, policySrc, cfgErr, lastParse, call, queries, raw, final>>

----------------------------------------------------------------------------
(* Bounds of the model. *)

\* The longest directive argument list tried (the action word included).
MaxArgs == 5

\* The most records a resolver answer holds.
MaxRecords == 2

----------------------------------------------------------------------------
(* Strings. *)

\* The characters of each string the model parses or slices.
CharTable ==
       ("" :> <<>>)
    @@ ("postmaster" :> <<"p", "o", "s", "t", "m", "a", "s", "t", "e", "r">>)
    @@ ("Postmaster" :> <<"P", "o", "s", "t", "m", "a", "s", "t", "e", "r">>)
    @@ ("a@b.org" :> <<"a", "@", "b", ".", "o", "r", "g">>)
    @@ ("nodomain" :> <<"n", "o", "d", "o", "m", "a", "i", "n">>)
    @@ ("@b.org" :> <<"@", "b", ".", "o", "r", "g">>)
    @@ ("a@" :> <<"a", "@">>)
    @@ ("450" :> <<"4", "5", "0">>)
    @@ ("550" :> <<"5", "5", "0">>)
    @@ ("45" :> <<"4", "5">>)
    @@ ("4000" :> <<"4", "0", "0", "0">>)
    @@ ("650" :> <<"6", "5", "0">>)
    @@ ("abc" :> <<"a", "b", "c">>)
    @@ ("-450" :> <<"-", "4", "5", "0">>)
    @@ ("+550" :> <<"+", "5", "5", "0">>)
    @@ ("0450" :> <<"0", "4", "5", "0">>)
    @@ ("5.7.1" :> <<"5", ".", "7", ".", "1">>)
    @@ ("4.7.0" :> <<"4", ".", "7", ".", "0">>)
    @@ ("5.7" :> <<"5", ".", "7">>)
    @@ ("a.b.c" :> <<"a", ".", "b", ".", "c">>)
    @@ ("5.-7.0" :> <<"5", ".", "-", "7", ".", "0">>)
    @@ ("6.7.0" :> <<"6", ".", "7", ".", "0">>)
    @@ ("5.7.0.1" :> <<"5", ".", "7", ".", "0", ".", "1">>)
    @@ ("+4.7.0" :> <<"+", "4", ".", "7", ".", "0">>)
    @@ ("5..0" :> <<"5", ".", ".", "0">>)
    @@ ("go away" :> <<"g", "o", " ", "a", "w", "a", "y">>)
    @@ ("x" :> <<"x">>)
    @@ ("mail.example.org." :> <<"m", "a", "i", "l", ".", "e", "x", "a", "m", "p", "l", "e", ".", "o", "r", "g", ".">>)
    @@ ("mail.example.org" :> <<"m", "a", "i", "l", ".", "e", "x", "a", "m", "p", "l", "e", ".", "o", "r", "g">>)
    @@ ("MAIL.example.org" :> <<"M", "A", "I", "L", ".", "e", "x", "a", "m", "p", "l", "e", ".", "o", "r", "g">>)
    @@ ("mail.evil.org" :> <<"m", "a", "i", "l", ".", "e", "v", "i", "l", ".", "o", "r", "g">>)
    @@ ("[192.0.2.1]" :> <<"[", "1", "9", "2", ".", "0", ".", "2", ".", "1", "]">>)
    @@ ("[192.0.2.2]" :> <<"[", "1", "9", "2", ".", "0", ".", "2", ".", "2", "]">>)
    @@ ("[192.0.2]" :> <<"[", "1", "9", "2", ".", "0", ".", "2", "]">>)
    @@ ("[]" :> <<"[", "]">>)
    @@ ("[mail]" :> <<"[", "m", "a", "i", "l", "]">>)
    @@ ("[192.0.2.256]" :> <<"[", "1", "9", "2", ".", "0", ".", "2", ".", "2", "5", "6", "]">>)
    @@ ("[192.0.2.1" :> <<"[", "1", "9", "2", ".", "0", ".", "2", ".", "1">>)

Chars(s) == CharTable[s]

Digits == {"0", "1", "2", "3", "4", "5", "6", "7", "8", "9"}

DigitVal(c) ==
    CASE c = "0" -> 0 [] c = "1" -> 1 [] c = "2" -> 2 [] c = "3" -> 3 [] c = "4" -> 4
      [] c = "5" -> 5 [] c = "6" -> 6 [] c = "7" -> 7 [] c = "8" -> 8 [] c = "9" -> 9

Upper == <<"A","B","C","D","E","F","G","H","I","J","K","L","M",
           "N","O","P","Q","R","S","T","U","V","W","X","Y","Z">>
Lower == <<"a","b","c","d","e","f","g","h","i","j","k","l","m",
           "n","o","p","q","r","s","t","u","v","w","x","y","z">>

\* ASCII case folding of one character.
Fold(c) ==
    IF \E i \in 1..26 : Upper[i] = c
    THEN Lower[CHOOSE i \in 1..26 : Upper[i] = c]
    ELSE c

\* strings.EqualFold on ASCII strings.
EqualFold(s, t) ==
    /\ Len(s) = Len(t)
    /\ \A i \in 1..Len(s) : Fold(s[i]) = Fold(t[i])

HasPrefix(s, p) == Len(s) >= Len(p) /\ SubSeq(s, 1, Len(p)) = p
HasSuffix(s, p) == Len(s) >= Len(p) /\ SubSeq(s, Len(s) - Len(p) + 1, Len(s)) = p

\* strings.TrimSuffix: removes one trailing occurrence of p.
TrimSuffix(s, p) == IF HasSuffix(s, p) THEN SubSeq(s, 1, Len(s) - Len(p)) ELSE s

\* strings.Split(s, sep) for a one character separator: never an empty list.
RECURSIVE Split(_, _)
Split(s, sep) ==
    IF \E i \in 1..Len(s) : s[i] = sep
    THEN LET i == CHOOSE k \in 1..Len(s) :
                      s[k] = sep /\ \A j \in 1..(k - 1) : s[j] # sep
         IN  <<SubSeq(s, 1, i - 1)>> \o Split(SubSeq(s, i + 1, Len(s)), sep)
    ELSE <<s>>

\* strings.LastIndexByte, 1-based; 0 when the byte does not occur.
LastIndexByte(s, c) ==
    IF \E i \in 1..Len(s) : s[i] = c
    THEN CHOOSE k \in 1..Len(s) : s[k] = c /\ \A j \in (k + 1)..Len(s) : s[j] # c
    ELSE 0

RECURSIVE DecVal(_)
DecVal(s) == IF s = <<>> THEN 0 ELSE 10 * DecVal(SubSeq(s, 1, Len(s) - 1)) + DigitVal(s[Len(s)])

\* strconv.Atoi: an optional sign, then at least one decimal digit and nothing
\* else.  The inputs of the model are short, so the range error is not reached.
Atoi(s) ==
    LET signed == s # <<>> /\ s[1] \in {"+", "-"}
        body   == IF signed THEN Tail(s) ELSE s
    IN  IF body = <<>> \/ \E i \in 1..Len(body) : body[i] \notin Digits
        THEN [ok |-> FALSE, val |-> 0]
        ELSE [ok |-> TRUE,
              val |-> IF signed /\ s[1] = "-" THEN 0 - DecVal(body) ELSE DecVal(body)]

\* Go's integer division truncates toward zero.
GoDiv(a, b) == IF a >= 0 THEN a \div b ELSE 0 - ((0 - a) \div b)

----------------------------------------------------------------------------
(* Error objects. *)

NoMisc == {}

\* exterrors.SMTPError
SMTPError(code, ench, msg, reason, checkName, err, misc) ==
    [kind |-> "SMTPError", Code |-> code, EnhancedCode |-> ench, Message |-> msg,
     Reason |-> reason, CheckName |-> checkName, Err |-> err, Misc |-> misc,
     text |-> "", temporary |-> FALSE]

\* An error of the resolver or of address.Split: its text and whether it
\* reports itself as temporary.
PlainError(text, temp) ==
    [kind |-> "error", Code |-> 0, EnhancedCode |-> <<0, 0, 0>>, Message |-> "",
     Reason |-> "", CheckName |-> "", Err |-> 0, Misc |-> NoMisc,
     text |-> text, temporary |-> temp]

\* exterrors.WithFields(err, fields): err wrapped with diagnostic fields.
WithFields(err, fields) ==
    [kind |-> "fields", Code |-> 0, EnhancedCode |-> <<0, 0, 0>>, Message |-> "",
     Reason |-> "", CheckName |-> "", Err |-> err, Misc |-> fields,
     text |-> "", temporary |-> FALSE]

\* The zero SMTPError, standing for the value behind a nil pointer.
NilError == SMTPError(0, <<0, 0, 0>>, "", "", "", 0, NoMisc)

\* err.Error() of a resolver error.
ErrorText(h, p) == h[p].text

\* exterrors.IsTemporary: whether the error reports itself as temporary.
IsTemporary(h, p) == h[p].temporary

\* module.CheckResult
CheckResult(reason, quarantine, reject) ==
    [Reason |-> reason, Quarantine |-> quarantine, Reject |-> reject]

\* check.FailAction
FailAction(quarantine, reject, override) ==
    [Quarantine |-> quarantine, Reject |-> reject, ReasonOverride |-> override]

----------------------------------------------------------------------------
(* Directive parsing. *)

DefaultCode == 554
DefaultEnhancedCode == <<5, 7, 0>>
DefaultMessage == "Message rejected due to a local policy"

\* parseEnhancedCode: [err, code]; on a part that is no integer the parts
\* parsed before it stay in code.
parseEnhancedCode(s) ==
    LET parts == Split(Chars(s), ".")
        bad   == {i \in 1..Len(parts) : ~Atoi(parts[i]).ok}
        stop  == IF bad = {} THEN Len(parts) + 1
                 ELSE CHOOSE i \in bad : \A j \in bad : i <= j
    IN  IF Len(parts) # 3
        THEN [err |-> "wrong amount of enhanced code parts", code |-> <<0, 0, 0>>]
        ELSE [err  |-> IF bad = {} THEN "" ELSE "strconv.Atoi: invalid syntax",
              code |-> [i \in 1..3 |-> IF i < stop THEN Atoi(parts[i]).val ELSE 0]]

\* ParseRejectDirective: [err, ptr, heap].  The switch falls through from the
\* case of 3 arguments to the case of 2 and to the case of 1.
ParseRejectDirective(args, h) ==
    LET n    == Len(args)
        fail(e) == [err |-> e, ptr |-> 0, heap |-> h]
        ench == parseEnhancedCode(args[2])
        code == Atoi(Chars(args[1]))
    IN  IF n > 3 THEN fail("invalid count of arguments")
        ELSE IF n = 3 /\ args[3] = "" THEN fail("message can't be empty")
        ELSE IF n >= 2 /\ ench.err # "" THEN fail(ench.err)
        ELSE IF n >= 2 /\ ench.code[1] # 4 /\ ench.code[1] # 5
            THEN fail("enhanced code should use either 4 or 5 as a first number")
        ELSE IF n >= 1 /\ ~code.ok THEN fail("invalid error code integer")
        ELSE IF n >= 1 /\ GoDiv(code.val, 100) # 4 /\ GoDiv(code.val, 100) # 5
            THEN fail("error code should start with either 4 or 5")
        ELSE [err  |-> "",
              ptr  |-> Len(h) + 1,
              heap |-> Append(h, SMTPError(
                          IF n >= 1 THEN code.val ELSE DefaultCode,
                          IF n >= 2 THEN ench.code ELSE DefaultEnhancedCode,
                          IF n = 3 THEN args[3] ELSE DefaultMessage,
                          "reject directive used", "", 0, NoMisc))]

\* ParseActionDirective: [err, val, heap, parsed]; parsed is the
\* ParseRejectDirective call it made, if any.
ParseActionDirective(args, h) ==
    LET fail(e) == [err |-> e, val |-> FailAction(FALSE, FALSE, 0), heap |-> h]
        r == ParseRejectDirective(Tail(args), h)
    IN  IF Len(args) = 0 THEN fail("expected at least 1 argument")
        ELSE IF args[1] \in {"reject", "quarantine"}
        THEN IF Len(args) > 1 /\ r.err # "" THEN fail(r.err)
             ELSE [err  |-> "",
                   val  |-> FailAction(args[1] = "quarantine", args[1] = "reject",
                                       IF Len(args) > 1 THEN r.ptr ELSE 0),
                   heap |-> IF Len(args) > 1 THEN r.heap ELSE h]
        ELSE IF args[1] = "ignore"
        THEN [err |-> "", val |-> FailAction(FALSE, FALSE, 0), heap |-> h]
        ELSE fail("invalid action")

\* FailActionDirective: the configuration callback; a block is refused.
FailActionDirective(node, h) ==
    IF node.Children # 0
    THEN [err |-> "can't declare block here", val |-> FailAction(FALSE, FALSE, 0), heap |-> h]
    ELSE ParseActionDirective(node.Args, h)

----------------------------------------------------------------------------
(* Policy merge. *)

\* Apply without the early return for a passing verdict.
ApplyNoPassCheck(cfa, originalRes, h) ==
    LET wrapped == cfa.ReasonOverride # 0
        h2 == IF wrapped
              THEN Append(h, SMTPError(h[cfa.ReasonOverride].Code,
                                       h[cfa.ReasonOverride].EnhancedCode,
                                       h[cfa.ReasonOverride].Message,
                                       "", "", originalRes.Reason, NoMisc))
              ELSE h
    IN  [res  |-> CheckResult(IF wrapped THEN Len(h) + 1 ELSE originalRes.Reason,
                              cfa.Quarantine \/ originalRes.Quarantine,
                              cfa.Reject \/ originalRes.Reject),
         heap |-> h2]

\* Apply replacing the reason by the override instead of wrapping it: the
\* override object itself is returned and the original reason is lost.
ApplyReplace(cfa, originalRes, h) ==
    IF originalRes.Reason = 0
    THEN [res |-> originalRes, heap |-> h]
    ELSE [res  |-> CheckResult(IF cfa.ReasonOverride # 0 THEN cfa.ReasonOverride
                               ELSE originalRes.Reason,
                               cfa.Quarantine \/ originalRes.Quarantine,
                               cfa.Reject \/ originalRes.Reject),
          heap |-> h]

\* Apply assigning the policy's flags instead of or-ing them into the verdict's.
ApplyAssignFlags(cfa, originalRes, h) ==
    IF originalRes.Reason = 0
    THEN [res |-> originalRes, heap |-> h]
    ELSE LET wrapped == cfa.ReasonOverride # 0
             h2 == IF wrapped
                   THEN Append(h, SMTPError(h[cfa.ReasonOverride].Code,
                                            h[cfa.ReasonOverride].EnhancedCode,
                                            h[cfa.ReasonOverride].Message,
                                            "", "", originalRes.Reason, NoMisc))
                   ELSE h
         IN  [res  |-> CheckResult(IF wrapped THEN Len(h) + 1 ELSE originalRes.Reason,
                                   cfa.Quarantine, cfa.Reject),
              heap |-> h2]

\* FailAction.Apply: [res, heap].
Apply(cfa, originalRes, h) ==
    IF originalRes.Reason = 0
    THEN [res |-> originalRes, heap |-> h]
    ELSE LET wrapped == cfa.ReasonOverride # 0
             h2 == IF wrapped
                   THEN Append(h, SMTPError(h[cfa.ReasonOverride].Code,
                                            h[cfa.ReasonOverride].EnhancedCode,
                                            h[cfa.ReasonOverride].Message,
                                            "", "", originalRes.Reason, NoMisc))
                   ELSE h
         IN  [res  |-> CheckResult(IF wrapped THEN Len(h) + 1 ELSE originalRes.Reason,
                                   cfa.Quarantine \/ originalRes.Quarantine,
                                   cfa.Reject \/ originalRes.Reject),
              heap |-> h2]

----------------------------------------------------------------------------
(* Network values. *)

\* net.ParseIP on dotted-quad text: four decimal fields of one to three
\* digits, each at most 255 and without a leading zero; <<>> is the nil IP.
\* The inputs of the model hold no IPv6 text.
ParseIP(s) ==
    LET parts == Split(s, ".")
        okPart(p) == /\ Len(p) \in 1..3
                     /\ \A i \in 1..Len(p) : p[i] \in Digits
                     /\ (Len(p) > 1 => p[1] # "0")
                     /\ DecVal(p) <= 255
    IN  IF Len(parts) = 4 /\ \A i \in 1..4 : okPart(parts[i])
        THEN [i \in 1..4 |-> DecVal(parts[i])]
        ELSE <<>>

\* net.IP.Equal on IPv4 addresses (and on the nil IP).
IPEqual(a, b) == a = b

\* address.Split: [mailbox, domain, err], the two parts as characters.  "postmaster" alone is an address
\* without a domain; otherwise the last at-sign separates two non-empty parts.
AddressSplit(addr) ==
    LET a    == Chars(addr)
        indx == LastIndexByte(a, "@")
        fail(e) == [mailbox |-> <<>>, domain |-> <<>>, err |-> e]
    IN  IF EqualFold(a, Chars("postmaster"))
        THEN [mailbox |-> a, domain |-> <<>>, err |-> ""]
        ELSE IF indx = 0 THEN fail("address: missing at-sign")
        ELSE IF indx = 1 THEN fail("address: empty local-part")
        ELSE IF indx = Len(a) THEN fail("address: empty domain part")
        ELSE [mailbox |-> SubSeq(a, 1, indx - 1),
              domain  |-> SubSeq(a, indx + 1, Len(a)),
              err     |-> ""]

\* A resolver answer: err is "" (success), "temporary" or "permanent"; recs
\* are the records of a successful answer.
ResolverError(ans) ==
    PlainError(IF ans.err = "temporary" THEN "lookup: i/o timeout" ELSE "lookup: no such host",
               ans.err = "temporary")

Pass(h) == [res |-> CheckResult(0, FALSE, FALSE), heap |-> h, queries |-> <<>>]

Fail(h, e, q) ==
    [res |-> CheckResult(Len(h) + 1, FALSE, FALSE), heap |-> Append(h, e), queries |-> q]

----------------------------------------------------------------------------
(* The identity checks: each returns [res, heap, queries]. *)

requireMatchingRDNS(ctx, h) ==
    IF ~ctx.SrcRDNSName.set
    THEN Pass(h)
    ELSE IF ~ctx.SrcRDNSName.isString
    THEN Fail(h, SMTPError(40, <<4, 7, 25>>, "DNS lookup failure during policy check",
                           "", "require_matching_rdns", 0, NoMisc), <<>>)
    ELSE LET srcDomain == TrimSuffix(Chars(ctx.SrcHostname), <<".">>)
             rdnsName  == TrimSuffix(Chars(ctx.SrcRDNSName.str), <<".">>)
         IN  IF EqualFold(rdnsName, srcDomain)
             THEN Pass(h)
             ELSE Fail(h, SMTPError(550, <<5, 7, 25>>,
                                    "rDNS name does not match source hostname",
                                    "", "require_matching_rdns", 0, NoMisc), <<>>)

\* mxLookupFailure without the IsTemporary test: every resolver error is permanent.
mxLookupFailureAlwaysPermanent(ans, h, q) ==
    LET h1  == Append(h, ResolverError(ans))
        err == Len(h1)
    IN  Fail(h1, SMTPError(501, <<5, 7, 27>>,
                           "DNS lookup failure during policy check",
                           "", "require_mx_record", err,
                           {<<"reason", ErrorText(h1, err)>>}), q)

\* The verdict of requireMXRecord when LookupMX returned the error ans; the
\* resolver's error object is allocated first and kept as the cause.
mxLookupFailure(ans, h, q) ==
    LET h1   == Append(h, ResolverError(ans))
        err  == Len(h1)
        temp == IsTemporary(h1, err)
    IN  Fail(h1, SMTPError(IF temp THEN 420 ELSE 501,
                           IF temp THEN <<4, 7, 27>> ELSE <<5, 7, 27>>,
                           "DNS lookup failure during policy check",
                           "", "require_mx_record", err,
                           {<<"reason", ErrorText(h1, err)>>}), q)

\* requireMXRecord without the test for an empty record list.
requireMXRecordNoEmptyTest(ctx, mailFrom, h) ==
    LET sp  == AddressSplit(mailFrom)
        q   == <<[op |-> "LookupMX", name |-> sp.domain]>>
        ans == ctx.Resolver.mx
    IN  IF mailFrom = "" THEN Pass(h)
        ELSE IF sp.err # ""
        THEN LET h1 == Append(h, PlainError(sp.err, FALSE))
             IN  Fail(h1, WithFields(Len(h1), {<<"check", "require_matching_rdns">>}), <<>>)
        ELSE IF sp.domain = <<>>
        THEN Fail(h, SMTPError(501, <<5, 1, 8>>, "No domain part",
                               "", "require_mx_record", 0, NoMisc), <<>>)
        ELSE IF ctx.SrcAddr.kind # "tcp" THEN Pass(h)
        ELSE IF ans.err # "" THEN mxLookupFailure(ans, h, q)
        ELSE [res |-> CheckResult(0, FALSE, FALSE), heap |-> h, queries |-> q]

requireMXRecord(ctx, mailFrom, h) ==
    LET sp  == AddressSplit(mailFrom)
        q   == <<[op |-> "LookupMX", name |-> sp.domain]>>
        ans == ctx.Resolver.mx
    IN  IF mailFrom = "" THEN Pass(h)
        ELSE IF sp.err # ""
        THEN LET h1 == Append(h, PlainError(sp.err, FALSE))
             IN  Fail(h1, WithFields(Len(h1), {<<"check", "require_matching_rdns">>}), <<>>)
        ELSE IF sp.domain = <<>>
        THEN Fail(h, SMTPError(501, <<5, 1, 8>>, "No domain part",
                               "", "require_mx_record", 0, NoMisc), <<>>)
        ELSE IF ctx.SrcAddr.kind # "tcp" THEN Pass(h)
        ELSE IF ans.err # "" THEN mxLookupFailure(ans, h, q)
        ELSE IF Len(ans.recs) = 0
        THEN Fail(h, SMTPError(501, <<5, 7, 27>>, "Domain in MAIL FROM has no MX records",
                               "", "require_mx_record", 0, NoMisc), q)
        ELSE [res |-> CheckResult(0, FALSE, FALSE), heap |-> h, queries |-> q]

\* The verdict of requireMatchingEHLO when LookupIPAddr returned the error ans.
ehloLookupFailure(ans, h, q) ==
    LET h1   == Append(h, ResolverError(ans))
        err  == Len(h1)
        temp == IsTemporary(h1, err)
    IN  Fail(h1, SMTPError(IF temp THEN 420 ELSE 501,
                           IF temp THEN <<4, 7, 27>> ELSE <<5, 7, 27>>,
                           "DNS lookup failure during policy check",
                           "", "require_matching_ehlo", err,
                           {<<"reason", ErrorText(h1, err)>>}), q)

\* requireMatchingEHLO accepting every well-formed literal, without comparing
\* it with the source IP.
requireMatchingEHLONoCompare(ctx, h) ==
    LET ehlo   == Chars(ctx.SrcHostname)
        tcpIP  == ctx.SrcAddr.IP
        ehloIP == ParseIP(SubSeq(ehlo, 2, Len(ehlo) - 1))
        q      == <<[op |-> "LookupIPAddr", name |-> ctx.SrcHostname]>>
        ans    == ctx.Resolver.ip
    IN  IF ctx.SrcAddr.kind # "tcp" THEN Pass(h)
        ELSE IF HasPrefix(ehlo, <<"[">>) /\ HasSuffix(ehlo, <<"]">>)
        THEN IF ehloIP = <<>>
             THEN Fail(h, SMTPError(550, <<5, 7, 0>>, "Malformed IP in EHLO",
                                    "", "require_matching_ehlo", 0, NoMisc), <<>>)
             ELSE Pass(h)
        ELSE IF ans.err # "" THEN ehloLookupFailure(ans, h, q)
        ELSE IF \E i \in 1..Len(ans.recs) : IPEqual(tcpIP, ans.recs[i])
        THEN [res |-> CheckResult(0, FALSE, FALSE), heap |-> h, queries |-> q]
        ELSE Fail(h, SMTPError(550, <<5, 7, 0>>,
                               "No matching A/AAA records found for EHLO hostname",
                               "", "require_matching_ehlo", 0, NoMisc), q)

requireMatchingEHLO(ctx, h) ==
    LET ehlo   == Chars(ctx.SrcHostname)
        tcpIP  == ctx.SrcAddr.IP
        ehloIP == ParseIP(SubSeq(ehlo, 2, Len(ehlo) - 1))
        q      == <<[op |-> "LookupIPAddr", name |-> ctx.SrcHostname]>>
        ans    == ctx.Resolver.ip
    IN  IF ctx.SrcAddr.kind # "tcp" THEN Pass(h)
        ELSE IF HasPrefix(ehlo, <<"[">>) /\ HasSuffix(ehlo, <<"]">>)
        THEN IF ehloIP = <<>>
             THEN Fail(h, SMTPError(550, <<5, 7, 0>>, "Malformed IP in EHLO",
                                    "", "require_matching_ehlo", 0, NoMisc), <<>>)
             ELSE IF ~IPEqual(ehloIP, tcpIP)
             THEN Fail(h, SMTPError(550, <<5, 7, 0>>,
                                    "IP in EHLO is not the same as actual client IP",
                                    "", "require_matching_ehlo", 0, NoMisc), <<>>)
             ELSE Pass(h)
        ELSE IF ans.err # "" THEN ehloLookupFailure(ans, h, q)
        ELSE IF \E i \in 1..Len(ans.recs) : IPEqual(tcpIP, ans.recs[i])
        THEN [res |-> CheckResult(0, FALSE, FALSE), heap |-> h, queries |-> q]
        ELSE Fail(h, SMTPError(550, <<5, 7, 0>>,
                               "No matching A/AAA records found for EHLO hostname",
                               "", "require_matching_ehlo", 0, NoMisc), q)

----------------------------------------------------------------------------
(* The inputs tried. *)

ActionWords == {"reject", "quarantine", "ignore", "bounce"}

CodeStrs == {"450", "550", "45", "4000", "650", "abc", "",
             "-450", "+550", "0450"}

EnhStrs == {"5.7.1", "4.7.0", "5.7", "a.b.c", "5.-7.0", "6.7.0",
            "5.7.0.1", "", "+4.7.0", "5..0"}

MsgStrs == {"", "go away"}

ExtraStrs == {"x"}

ArgPool(i) ==
    CASE i = 1 -> CodeStrs [] i = 2 -> EnhStrs [] i = 3 -> MsgStrs [] OTHER -> ExtraStrs

\* The argument lists of exactly n arguments.
RECURSIVE ArgLists(_)
ArgLists(n) ==
    IF n = 0 THEN {<<>>}
    ELSE {Append(s, a) : s \in ArgLists(n - 1), a \in ArgPool(n)}

RejectArgs == UNION {ArgLists(n) : n \in 0..(MaxArgs - 1)}

DirectiveArgs == {<<>>} \cup {<<w>> \o s : w \in ActionWords, s \in RejectArgs}

\* Overrides a FailAction literal may carry.
LiteralOverrides ==
    {SMTPError(550, <<5, 7, 1>>, "denied", "", "", 0, NoMisc),
     SMTPError(451, <<4, 7, 1>>, "try later", "", "", 0, NoMisc)}

IP1 == <<192, 0, 2, 1>>
IP2 == <<192, 0, 2, 2>>

SrcAddrs == {[kind |-> "tcp", IP |-> IP1], [kind |-> "tcp", IP |-> IP2],
             [kind |-> "unix", IP |-> <<>>]}

NoRDNS == [set |-> FALSE, isString |-> FALSE, str |-> ""]

RDNSNames ==
    {NoRDNS, [set |-> TRUE, isString |-> FALSE, str |-> ""]}
    \cup {[set |-> TRUE, isString |-> TRUE, str |-> s] :
            s \in {"mail.example.org.", "mail.example.org",
                   "MAIL.example.org", "mail.evil.org"}}

RDNSHostnames == {"mail.example.org", "mail.example.org.", "[192.0.2.1]"}

EHLOHostnames == {"[192.0.2.1]", "[192.0.2.2]", "[192.0.2]", "[]", "[mail]",
                  "[192.0.2.256]", "[192.0.2.1", "mail.example.org"}

MailFroms == {"", "postmaster", "Postmaster", "a@b.org", "nodomain",
              "@b.org", "a@"}

\* The sequences of at most n elements of S.
RECURSIVE SeqsUpTo(_, _)
SeqsUpTo(S, n) ==
    IF n = 0 THEN {<<>>}
    ELSE SeqsUpTo(S, n - 1)
         \cup {Append(s, x) : s \in {t \in SeqsUpTo(S, n - 1) : Len(t) = n - 1}, x \in S}

NoAnswer == [err |-> "", recs |-> <<>>]

Failures == {[err |-> e, recs |-> <<>>] : e \in {"temporary", "permanent"}}

MXAnswers ==
    Failures \cup {[err |-> "", recs |-> r] :
                     r \in SeqsUpTo({[Host |-> "mx.b.org.", Pref |-> 10]}, MaxRecords)}

IPAnswers == Failures \cup {[err |-> "", recs |-> r] : r \in SeqsUpTo({IP1, IP2}, MaxRecords)}

DefaultCtx ==
    [SrcAddr |-> [kind |-> "tcp", IP |-> IP1], SrcHostname |-> "mail.example.org",
     SrcRDNSName |-> NoRDNS, Resolver |-> [mx |-> NoAnswer, ip |-> NoAnswer]]

\* Verdicts of a check other than the three DNS checks.
OtherReason == SMTPError(550, <<5, 7, 1>>, "spam", "", "other", 0, NoMisc)

----------------------------------------------------------------------------
(* The state machine. *)

NoParse == [called |-> FALSE, args |-> <<>>, err |-> "", val |-> NilError]
NoCall == [check |-> "none", mailFrom |-> "", ctx |-> DefaultCtx]
NoResult == CheckResult(0, FALSE, FALSE)

Init ==
    /\ heap = <<>>
    /\ pc = "load"
    /\ policy = FailAction(FALSE, FALSE, 0)
    /\ policySrc = "none"
    /\ cfgErr = ""
    /\ lastParse = NoParse
    /\ call = NoCall
    /\ queries = <<>>
    /\ raw = NoResult
    /\ final = NoResult

\* A reject directive is parsed on its own, outside an action directive; the
\* call and its result are recorded by value.
DirectParse(args) ==
    /\ pc = "load"
    /\ LET r == ParseRejectDirective(args, heap)
       IN  /\ lastParse' = [called |-> TRUE, args |-> args, err |-> r.err,
                            val |-> IF r.err = "" THEN r.heap[r.ptr] ELSE NilError]
           /\ heap' = r.heap
    /\ pc' = "parsed"
    /\ UNCHANGED <<policy, policySrc, cfgErr, call, queries, raw, final>>

\* The check's action directive is read: on an error the configuration is
\* refused, nothing is installed and the server does not start.
Configure(node) ==
    /\ pc = "load"
    /\ LET r == FailActionDirective(node, heap)
       IN  IF r.err # ""
           THEN /\ cfgErr' = r.err
                /\ pc' = "failed"
                /\ UNCHANGED <<heap, policy, policySrc>>
           ELSE /\ cfgErr' = ""
                /\ heap' = r.heap
                /\ policy' = r.val
                /\ policySrc' = "directive"
                /\ pc' = "ready"
    /\ UNCHANGED <<lastParse, call, queries, raw, final>>

\* No directive is given: the check runs with the FailAction literal it was
\* registered with.
UseDefaultAction(quarantine, reject, override) ==
    /\ pc = "load"
    /\ heap' = IF override = NilError THEN heap ELSE Append(heap, override)
    /\ policy' = FailAction(quarantine, reject,
                            IF override = NilError THEN 0 ELSE Len(heap) + 1)
    /\ policySrc' = "literal"
    /\ pc' = "ready"
    /\ UNCHANGED <<cfgErr, lastParse, call, queries, raw, final>>

Checked(name, mailFrom, ctx, r) ==
    /\ heap' = r.heap
    /\ raw' = r.res
    /\ queries' = r.queries
    /\ call' = [check |-> name, mailFrom |-> mailFrom, ctx |-> ctx]
    /\ pc' = "checked"
    /\ UNCHANGED <<policy, policySrc, cfgErr, lastParse, final>>

CheckRDNS(ctx) ==
    /\ pc = "ready"
    /\ Checked("require_matching_rdns", "", ctx, requireMatchingRDNS(ctx, heap))

CheckMX(ctx, mailFrom) ==
    /\ pc = "ready"
    /\ Checked("require_mx_record", mailFrom, ctx, requireMXRecord(ctx, mailFrom, heap))

CheckEHLO(ctx) ==
    /\ pc = "ready"
    /\ Checked("require_matching_ehlo", "", ctx, requireMatchingEHLO(ctx, heap))

\* Another check module hands in its own CheckResult.
CheckOther(failed, quarantine, reject) ==
    /\ pc = "ready"
    /\ Checked("other", "", DefaultCtx,
               IF failed
               THEN [res |-> CheckResult(Len(heap) + 1, quarantine, reject),
                     heap |-> Append(heap, OtherReason), queries |-> <<>>]
               ELSE [res |-> CheckResult(0, quarantine, reject),
                     heap |-> heap, queries |-> <<>>])

\* The check applies its FailAction to the verdict.
ApplyAction ==
    /\ pc = "checked"
    /\ LET r == Apply(policy, raw, heap)
       IN  /\ final' = r.res
           /\ heap' = r.heap
    /\ pc' = "applied"
    /\ UNCHANGED <<policy, policySrc, cfgErr, lastParse, call, queries, raw>>

\* The pipeline consumes the verdict; the objects of this message are dropped
\* and only the policy's override stays allocated.
Consume ==
    /\ pc = "applied"
    /\ pc' = "ready"
    /\ heap' = IF policy.ReasonOverride = 0 THEN <<>> ELSE SubSeq(heap, 1, policy.ReasonOverride)
    /\ call' = NoCall
    /\ queries' = <<>>
    /\ raw' = NoResult
    /\ final' = NoResult
    /\ UNCHANGED <<policy, policySrc, cfgErr, lastParse>>

Next ==
    \/ \E args \in RejectArgs : DirectParse(args)
    \/ \E args \in DirectiveArgs, children \in {0, 1} :
          Configure([Args |-> args, Children |-> children])
    \/ \E q \in BOOLEAN, r \in BOOLEAN, o \in LiteralOverrides \cup {NilError} :
          UseDefaultAction(q, r, o)
    \/ \E n \in RDNSNames, hn \in RDNSHostnames :
          CheckRDNS([DefaultCtx EXCEPT !.SrcRDNSName = n, !.SrcHostname = hn])
    \/ \E a \in SrcAddrs, m \in MailFroms, ans \in MXAnswers :
          CheckMX([DefaultCtx EXCEPT !.SrcAddr = a, !.Resolver.mx = ans], m)
    \/ \E a \in SrcAddrs, hn \in EHLOHostnames, ans \in IPAnswers :
          CheckEHLO([DefaultCtx EXCEPT !.SrcAddr = a, !.SrcHostname = hn, !.Resolver.ip = ans])
    \/ \E f \in BOOLEAN, q \in BOOLEAN, r \in BOOLEAN : CheckOther(f, q, r)
    \/ ApplyAction
    \/ Consume

Spec == Init /\ [][Next]_vars

----------------------------------------------------------------------------
(* Properties. *)

Failed(res) == res.Reason # 0
Transient(e) == e.kind = "SMTPError" /\ e.Code \in 400..499 /\ e.EnhancedCode[1] = 4

\* The answer the resolver gave to the lookup of the last check.
Answer ==
    IF call.check = "require_mx_record" THEN call.ctx.Resolver.mx ELSE call.ctx.Resolver.ip

\* C1: Apply returns a passing verdict (no reason) unchanged in all three
\* fields, whatever the policy.
C1_ApplyPassIdentity ==
    (pc = "applied" /\ raw.Reason = 0) => final = raw

C1_Witness ==
    /\ pc = "applied"
    /\ raw.Reason = 0
    /\ raw.Quarantine /\ ~raw.Reject
    /\ policy.Reject /\ policy.ReasonOverride # 0
    /\ final = raw

\* C2: for a policy built by ParseActionDirective and a verdict of the MX or
\* EHLO check whose reason is a transient DNS lookup failure, the reason Apply
\* returns still has a 4xx code and an enhanced code of class 4.
C2_TransientStaysTransient ==
    (/\ pc = "applied"
     /\ policySrc = "directive"
     /\ call.check \in {"require_mx_record", "require_matching_ehlo"}
     /\ Failed(raw)
     /\ Transient(heap[raw.Reason]))
    => Transient(heap[final.Reason])

\* C3: with an override set and a failing verdict, Apply allocates a new
\* SMTPError carrying the override's Code, EnhancedCode and Message and the
\* original reason as its cause; the override, the original reason and every
\* other existing object stay as they were, and so does the policy.
C3_ApplyWraps ==
    [][(/\ pc = "checked" /\ pc' = "applied"
        /\ policy.ReasonOverride # 0
        /\ raw.Reason # 0)
       => (/\ final'.Reason \in (Len(heap) + 1)..Len(heap')
           /\ heap'[final'.Reason].kind = "SMTPError"
           /\ heap'[final'.Reason].Code = heap[policy.ReasonOverride].Code
           /\ heap'[final'.Reason].EnhancedCode = heap[policy.ReasonOverride].EnhancedCode
           /\ heap'[final'.Reason].Message = heap[policy.ReasonOverride].Message
           /\ heap'[final'.Reason].Err = raw.Reason
           /\ \A i \in 1..Len(heap) : heap'[i] = heap[i]
           /\ policy' = policy)]_vars

C3_Witness ==
    /\ pc = "applied"
    /\ policy.ReasonOverride # 0
    /\ raw.Reason # 0
    /\ heap[raw.Reason].Err # 0
    /\ final.Reason # raw.Reason
    /\ heap[final.Reason].Err = raw.Reason
    /\ heap[final.Reason].Code = heap[policy.ReasonOverride].Code

\* C4: on a failing verdict each flag of the result is the disjunction of the
\* policy's flag and the verdict's flag.
C4_ApplyOrsFlags ==
    (pc = "applied" /\ raw.Reason # 0)
    => /\ final.Quarantine = (policy.Quarantine \/ raw.Quarantine)
       /\ final.Reject = (policy.Reject \/ raw.Reject)

C4_Witness ==
    /\ pc = "applied"
    /\ raw.Reason # 0
    /\ raw.Quarantine /\ ~policy.Quarantine
    /\ policy.Reject /\ ~raw.Reject
    /\ final.Quarantine /\ final.Reject

\* C5: when the lookup of the MX or the EHLO check returns an error, the
\* verdict fails with 420 and 4.7.27 for a temporary error and with 501 and
\* 5.7.27 otherwise; the resolver's error is the cause and its text is the
\* diagnostic field "reason".
C5_ResolverErrorClass ==
    (/\ pc = "checked"
     /\ call.check \in {"require_mx_record", "require_matching_ehlo"}
     /\ queries # <<>>
     /\ Answer.err # "")
    => /\ Failed(raw)
       /\ LET e == heap[raw.Reason]
          IN  /\ e.kind = "SMTPError"
              /\ Answer.err = "temporary" => (e.Code = 420 /\ e.EnhancedCode = <<4, 7, 27>>)
              /\ Answer.err # "temporary" => (e.Code = 501 /\ e.EnhancedCode = <<5, 7, 27>>)
              /\ e.Err # 0
              /\ heap[e.Err] = ResolverError(Answer)
              /\ e.Misc = {<<"reason", ResolverError(Answer).text>>}

C5_Witness ==
    /\ pc = "checked"
    /\ call.check = "require_matching_ehlo"
    /\ queries # <<>>
    /\ Answer.err = "temporary"
    /\ heap[raw.Reason].Code = 420

\* C6: in the rDNS check a lookup that was attempted without a usable string
\* result fails with a three digit 4xx code and an enhanced code of class 4;
\* without an attempted lookup the check passes.
C6_RDNSFailureTransient ==
    (pc = "checked" /\ call.check = "require_matching_rdns")
    => /\ (call.ctx.SrcRDNSName.set /\ ~call.ctx.SrcRDNSName.isString)
          => (Failed(raw) /\ Transient(heap[raw.Reason]))
       /\ ~call.ctx.SrcRDNSName.set => ~Failed(raw)

\* The reject_args grammar, read in the code's favour: an integer may carry a
\* sign and leading zeros, and the first digit of a code is the hundreds
\* digit of a three digit reply code.
IsNumeral(s) == s # <<>> /\ \A i \in 1..Len(s) : s[i] \in Digits
Unsigned(s) == IF s # <<>> /\ s[1] \in {"+", "-"} THEN Tail(s) ELSE s
IsInteger(s) == IsNumeral(Unsigned(s))
IntVal(s) == IF s[1] = "-" THEN 0 - DecVal(Unsigned(s)) ELSE DecVal(Unsigned(s))
GrammarCode(s) ==
    /\ IsInteger(Chars(s))
    /\ IntVal(Chars(s)) \in 400..599
GrammarEnhancedCode(s) ==
    LET parts == Split(Chars(s), ".")
    IN  /\ Len(parts) = 3
        /\ \A i \in 1..3 : IsInteger(parts[i]) /\ IntVal(parts[i]) >= 0
        /\ IntVal(parts[1]) \in {4, 5}
GrammarArgs(a) ==
    /\ Len(a) <= 3
    /\ Len(a) >= 1 => GrammarCode(a[1])
    /\ Len(a) >= 2 => GrammarEnhancedCode(a[2])
    /\ Len(a) = 3 => a[3] # ""

\* C7: ParseRejectDirective succeeds exactly on the argument lists of the
\* reject_args grammar (at most 3 arguments, a code starting with 4 or 5, an
\* enhanced code of three non-negative integers starting with 4 or 5, a
\* non-empty message), and then returns the supplied values with the defaults
\* 554, 5.7.0 and the default message for the omitted ones.
C7_ParseRejectGrammar ==
    lastParse.called =>
       LET a == lastParse.args
           v == lastParse.val
       IN  /\ (lastParse.err = "") <=> GrammarArgs(a)
           /\ (lastParse.err = "" /\ GrammarArgs(a)) =>
                 /\ v.Code = IF Len(a) >= 1 THEN IntVal(Chars(a[1])) ELSE 554
                 /\ v.EnhancedCode = IF Len(a) >= 2
                                     THEN [i \in 1..3 |-> IntVal(Split(Chars(a[2]), ".")[i])]
                                     ELSE <<5, 7, 0>>
                 /\ v.Message = IF Len(a) = 3 THEN a[3] ELSE DefaultMessage

\* C8: every SMTPError ParseRejectDirective returns, and so every override of
\* a policy built by ParseActionDirective, has an enhanced code class equal to
\* the first digit of its reply code.
C8_CodeClassConsistent ==
    /\ (lastParse.called /\ lastParse.err = "")
          => lastParse.val.EnhancedCode[1] = GoDiv(lastParse.val.Code, 100)
    /\ (policySrc = "directive" /\ policy.ReasonOverride # 0)
          => heap[policy.ReasonOverride].EnhancedCode[1]
                = GoDiv(heap[policy.ReasonOverride].Code, 100)

\* C9: the MX check passes on an empty return-path without a lookup; with a
\* non-empty domain on a TCP connection it performs exactly one LookupMX of
\* that domain, and on its success passes exactly when a record came back,
\* failing with 501 and 5.7.27 on none; it performs no lookup when the domain
\* is empty (a permanent failure) or the connection is not TCP (a pass, for a
\* return-path that got that far).
C9_MXRecord ==
    (pc = "checked" /\ call.check = "require_mx_record")
    => LET sp  == AddressSplit(call.mailFrom)
           tcp == call.ctx.SrcAddr.kind = "tcp"
           hasDomain == call.mailFrom # "" /\ sp.err = "" /\ sp.domain # <<>>
       IN  /\ call.mailFrom = "" => (~Failed(raw) /\ queries = <<>>)
           /\ (hasDomain /\ tcp) =>
                 /\ queries = <<[op |-> "LookupMX", name |-> sp.domain]>>
                 /\ Answer.err = "" =>
                       /\ ~Failed(raw) <=> Len(Answer.recs) >= 1
                       /\ Len(Answer.recs) = 0 =>
                             /\ heap[raw.Reason].Code = 501
                             /\ heap[raw.Reason].EnhancedCode = <<5, 7, 27>>
           /\ (call.mailFrom # "" /\ sp.err = "" /\ sp.domain = <<>>) =>
                 /\ queries = <<>>
                 /\ Failed(raw)
                 /\ heap[raw.Reason].Code \in 500..599
                 /\ heap[raw.Reason].EnhancedCode[1] = 5
           /\ ~tcp => queries = <<>>
           /\ (hasDomain /\ ~tcp) => ~Failed(raw)

C9_Witness ==
    /\ pc = "checked"
    /\ call.check = "require_mx_record"
    /\ call.ctx.SrcAddr.kind = "tcp"
    /\ AddressSplit(call.mailFrom).domain # <<>>
    /\ Len(queries) = 1
    /\ Answer.err = ""
    /\ Len(Answer.recs) = 0
    /\ Failed(raw)
    /\ heap[raw.Reason].EnhancedCode = <<5, 7, 27>>

\* C10: on a TCP connection the EHLO check decides a bracketed literal
\* without a lookup, passing exactly when the literal parses to the source IP
\* and failing with 550 and class 5 otherwise; for any other hostname whose
\* lookup succeeds it passes exactly when a resolved address is the source IP
\* and fails with 550 and class 5 otherwise.  Off TCP it passes without a lookup.
C10_MatchingEHLO ==
    (pc = "checked" /\ call.check = "require_matching_ehlo")
    => LET ehlo    == Chars(call.ctx.SrcHostname)
           src     == call.ctx.SrcAddr
           literal == Len(ehlo) >= 2 /\ ehlo[1] = "[" /\ ehlo[Len(ehlo)] = "]"
           inner   == SubSeq(ehlo, 2, Len(ehlo) - 1)
           perm    == /\ heap[raw.Reason].Code = 550
                      /\ heap[raw.Reason].EnhancedCode[1] = 5
       IN  /\ src.kind # "tcp" => (~Failed(raw) /\ queries = <<>>)
           /\ (src.kind = "tcp" /\ literal) =>
                 /\ queries = <<>>
                 /\ ~Failed(raw) <=> (ParseIP(inner) # <<>> /\ ParseIP(inner) = src.IP)
                 /\ Failed(raw) => perm
           /\ (src.kind = "tcp" /\ ~literal /\ Answer.err = "") =>
                 /\ ~Failed(raw) <=> \E i \in 1..Len(Answer.recs) : Answer.recs[i] = src.IP
                 /\ Failed(raw) => perm

C10_Witness ==
    /\ pc = "checked"
    /\ call.check = "require_matching_ehlo"
    /\ call.ctx.SrcAddr = [kind |-> "tcp", IP |-> IP2]
    /\ call.ctx.SrcHostname = "[192.0.2.1]"
    /\ Failed(raw)
    /\ heap[raw.Reason].Code = 550

====
